---- MODULE Spec2Model ----
(***************************************************************************)
(* Model of the rfxtrx433 driver library: the wire codec and decoder table *)
(* (src/src/trx_command.rs), the link worker `serial_port` and the session *)
(* facade `RFXtrx433` (src/src/lib.rs).                                    *)
(*                                                                         *)
(* Bytes are naturals 0..255, byte strings are sequences of bytes.         *)
(***************************************************************************)
EXTENDS Integers, Sequences, FiniteSets, TLC

(***************************************************************************)
(* Bounds of the model.                                                    *)
(***************************************************************************)
\* number of frames the device puts on the wire in a behaviour of Spec
MaxInFrames == 2
\* number of session operations called in a behaviour of Spec
MaxOps == 2
\* number of frames the device sends in a behaviour of BurstSpec
MaxBurst == 102
\* number of session operations called in a behaviour of BurstSpec
BurstOps == 1
\* write_all may hand the port a frame in two pieces, the first of WriteChunk bytes
WriteChunk == 7

(***************************************************************************)
(* Program constants.                                                      *)
(***************************************************************************)
MESSAGE_QUEUE_LEN == 100

(***************************************************************************)
(* Byte helpers.                                                           *)
(***************************************************************************)
Take(s, n) == SubSeq(s, 1, n)
Drop(s, n) == SubSeq(s, n + 1, Len(s))
Min(a, b) == IF a < b THEN a ELSE b

RECURSIVE BitAnd(_, _)
BitAnd(a, b) ==
    IF a = 0 \/ b = 0 THEN 0
    ELSE (a % 2) * (b % 2) + 2 * BitAnd(a \div 2, b \div 2)

\* u8 >> n
ShiftRight(a, n) == a \div (2 ^ n)

\* a 16-bit pattern read as an i16 (two's complement)
ToI16(x) == ((x + 32768) % 65536) - 32768
\* the 16-bit pattern of an i16
OfI16(x) == x % 65536
\* i16 << n: the bits shifted out are lost
ShiftLeftI16(a, n) == ToI16(OfI16(a) * (2 ^ n))

\* | on 16-bit patterns
RECURSIVE BitOrNat(_, _)
BitOrNat(a, b) ==
    IF a = 0 THEN b
    ELSE IF b = 0 THEN a
    ELSE (IF a % 2 = 1 \/ b % 2 = 1 THEN 1 ELSE 0) + 2 * BitOrNat(a \div 2, b \div 2)
\* i16 | i16
BitOr(a, b) == ToI16(BitOrNat(OfI16(a), OfI16(b)))

(***************************************************************************)
(* trx_command.rs: enumerations (the values FromPrimitive accepts).        *)
(***************************************************************************)
PacketType_InterfaceControl == 0
PacketType_InterfaceMessage == 1
PacketType_TempHum == 82

PacketType ==
    {0, 1, 2, 3} \cup (16 .. 27) \cup {30, 31, 32, 33, 40, 48}
    \cup (64 .. 67) \cup {72, 78, 79} \cup (80 .. 98)
    \cup {112, 113, 114, 118, 119, 127}

InterfaceCommandCmd_Reset == 0
InterfaceCommandCmd_Status == 2
InterfaceCommandCmd_SetMode == 3
InterfaceCommandCmd_Save == 6
InterfaceCommandCmd_StartReceiver == 7
InterfaceCommandCmd == {0, 2, 3, 6, 7}

InterfaceMessageSubType_InterfaceResponse == 0
InterfaceMessageSubType_RecStarted == 7
InterfaceMessageSubType == {0, 1, 2, 3, 4, 7, 255}

InterfaceControlSubType_InterfaceCommand == 0

Frequency == {80, 81, 82, 83, 84, 85, 95}
Frequency_default == 83

\* protocols.rs: every one of the four masks declares the eight flags 1<<0 .. 1<<7
Protocols_all == 255
from_bits_truncate(b) == BitAnd(b, Protocols_all)

(***************************************************************************)
(* trx_command.rs: PacketHeader.                                           *)
(***************************************************************************)
PacketHeader(pt, st, sn) == [packet_type |-> pt, sub_type |-> st, seqnbr |-> sn]

PacketHeader_extend(h, v) == v \o <<0, h.packet_type, h.sub_type, h.seqnbr>>

\* Result of a decoder: k = "ok" (v is the value), "err" (e names the TRXError)
\* or "panic" (the decoder panicked: index out of bounds, unreachable!()).
Ok(v) == [k |-> "ok", v |-> v, e |-> "none"]
Err(e) == [k |-> "err", v |-> <<>>, e |-> e]
Panic == [k |-> "panic", v |-> <<>>, e |-> "panic"]
\* TRXError::NotEnoughData { received, expected }
ErrNotEnoughData(received, expected) ==
    [k |-> "err", v |-> <<>>, e |-> "NotEnoughData",
     received |-> received, expected |-> expected]

\* (mutant of PacketHeader_parse: sub-type and sequence number are taken from
\* each other's byte)
PacketHeader_parse_swapped(data) ==
    IF Len(data) < 3 THEN ErrNotEnoughData(Len(data), 3)
    ELSE IF data[1] \notin PacketType THEN Err("UnknownPacketType")
    ELSE Ok([header |-> PacketHeader(data[1], data[3], data[2]),
             rest |-> Drop(data, 3)])

PacketHeader_parse(data) ==
    IF Len(data) < 3 THEN ErrNotEnoughData(Len(data), 3)
    ELSE IF data[1] \notin PacketType THEN Err("UnknownPacketType")
    ELSE Ok([header |-> PacketHeader(data[1], data[2], data[3]),
             rest |-> Drop(data, 3)])

(***************************************************************************)
(* trx_command.rs: InterfaceCommand::to_vec and the command builders.      *)
(***************************************************************************)
\* (mutant of InterfaceCommand_to_vec: the length byte counts itself)
InterfaceCommand_to_vec_countsItself(header, cmd, frequency, xmitpwr, extra) ==
    LET v == PacketHeader_extend(header, <<>>) \o <<cmd, frequency, xmitpwr>> \o extra
    IN  [v EXCEPT ![1] = Len(v) % 256]

InterfaceCommand_to_vec(header, cmd, frequency, xmitpwr, extra) ==
    LET v == PacketHeader_extend(header, <<>>) \o <<cmd, frequency, xmitpwr>> \o extra
    IN  [v EXCEPT ![1] = (Len(v) % 256) - 1]      \* v.len() as u8 - 1

ControlHeader(seqnbr) ==
    PacketHeader(PacketType_InterfaceControl,
                 InterfaceControlSubType_InterfaceCommand, seqnbr)

Zero7 == <<0, 0, 0, 0, 0, 0, 0>>

reset(seqnbr) ==
    InterfaceCommand_to_vec(ControlHeader(seqnbr), InterfaceCommandCmd_Reset, 0, 0, Zero7)

get_status(seqnbr) ==
    InterfaceCommand_to_vec(ControlHeader(seqnbr), InterfaceCommandCmd_Status, 0, 0, Zero7)

start_receiver(seqnbr) ==
    InterfaceCommand_to_vec(ControlHeader(seqnbr), InterfaceCommandCmd_StartReceiver,
                            0, 0, Zero7)

set_mode(seqnbr, frequency, protos_1, protos_2, protos_3, protos_4) ==
    InterfaceCommand_to_vec(ControlHeader(seqnbr), InterfaceCommandCmd_SetMode,
                            frequency, 0,
                            <<protos_1, protos_2, protos_3, protos_4, 0, 0, 0>>)

save(seqnbr) ==
    InterfaceCommand_to_vec(ControlHeader(seqnbr), InterfaceCommandCmd_Save, 0, 0, Zero7)

(***************************************************************************)
(* trx_command.rs: the decoders.                                           *)
(***************************************************************************)
EnabledProtocols_from(bytes) ==
    <<from_bits_truncate(bytes[1]), from_bits_truncate(bytes[2]),
      from_bits_truncate(bytes[3]), from_bits_truncate(bytes[4])>>

NoProtocols == <<0, 0, 0, 0>>

\* The InterfaceMessage variants; the fields other than t are meaningful for
\* Status only.
InterfaceMessage_Status(f, fw, ep) ==
    [t |-> "Status", frequency |-> f, fw_version |-> fw, enabled_protocols |-> ep]
InterfaceMessage_SetMode ==
    [t |-> "SetMode", frequency |-> 0, fw_version |-> 0, enabled_protocols |-> NoProtocols]
InterfaceMessage_ReceiverStarted ==
    [t |-> "ReceiverStarted", frequency |-> 0, fw_version |-> 0,
     enabled_protocols |-> NoProtocols]
InterfaceMessage_Save ==
    [t |-> "Save", frequency |-> 0, fw_version |-> 0, enabled_protocols |-> NoProtocols]

\* data is the body after the header; data[i] of the source is data[i + 1] here.
InterfaceMessage_parse(header, data) ==
    IF header.sub_type \notin InterfaceMessageSubType THEN Err("UnknownSubPacketType")
    ELSE IF Len(data) < 1 THEN Panic                       \* data[0]
    ELSE IF data[1] \notin InterfaceCommandCmd THEN Err("UnknownInterfaceMessageCommand")
    ELSE IF header.sub_type = InterfaceMessageSubType_InterfaceResponse THEN
        IF data[1] = InterfaceCommandCmd_Status THEN
            IF Len(data) < 2 THEN Panic                    \* data[1]
            ELSE IF data[2] \notin Frequency THEN Err("UnknownHardwareType")
            ELSE IF Len(data) < 3 THEN Panic               \* data[2]
            ELSE IF Len(data) < 7 THEN Panic               \* data[3..7]
            ELSE Ok(InterfaceMessage_Status(data[2], data[3],
                                            EnabledProtocols_from(SubSeq(data, 4, 7))))
        ELSE IF data[1] = InterfaceCommandCmd_SetMode THEN Ok(InterfaceMessage_SetMode)
        ELSE IF data[1] = InterfaceCommandCmd_Save THEN Ok(InterfaceMessage_Save)
        ELSE Panic                                         \* unreachable!()
    ELSE IF header.sub_type = InterfaceMessageSubType_RecStarted
        THEN Ok(InterfaceMessage_ReceiverStarted)
    ELSE Panic                                             \* unreachable!()

\* (mutant of TempHum_parse: the sign bit is not masked out of the high byte)
TempHum_parse_signNotMasked(header, data) ==
    IF Len(data) < 7 THEN ErrNotEnoughData(Len(data), 7)
    ELSE
        LET id == data[1] * 256 + data[2]
            temp_sign == BitAnd(data[3], 128)
            temp_high == data[3]
            temp_low == data[4]
            magnitude == BitOr(ShiftLeftI16(temp_high, 8), temp_low)
            temp == IF temp_sign # 0 THEN ToI16(-magnitude) ELSE magnitude
        IN  Ok([id |-> id, temp |-> temp, humidity |-> data[5],
                humidity_status |-> data[6],
                battery_level |-> ShiftRight(data[7], 4),
                rssi |-> BitAnd(data[7], 15)])

\* temp is kept in tenths of a degree: the i16 the source computes before it
\* divides by 10.0.
TempHum_parse(header, data) ==
    IF Len(data) < 7 THEN ErrNotEnoughData(Len(data), 7)
    ELSE
        LET id == data[1] * 256 + data[2]
            temp_sign == BitAnd(data[3], 128)
            temp_high == BitAnd(data[3], 127)
            temp_low == data[4]
            magnitude == BitOr(ShiftLeftI16(temp_high, 8), temp_low)
            temp == IF temp_sign # 0 THEN ToI16(-magnitude) ELSE magnitude
        IN  Ok([id |-> id, temp |-> temp, humidity |-> data[5],
                humidity_status |-> data[6],
                battery_level |-> ShiftRight(data[7], 4),
                rssi |-> BitAnd(data[7], 15)])

\* ProtocolMessage variants
ProtocolMessage_TempHum(th) == [t |-> "TempHum", th |-> th]
ProtocolMessage_NotParsed(header, data) == [t |-> "NotParsed", header |-> header, data |-> data]

\* ReceivedCommand variants: plane is "interface" or "protocol"
ReceivedCommand(plane, msg) == [plane |-> plane, msg |-> msg]

parse_message(data) ==
    LET h == PacketHeader_parse(data) IN
    IF h.k # "ok" THEN h
    ELSE IF h.v.header.packet_type = PacketType_InterfaceMessage THEN
        LET r == InterfaceMessage_parse(h.v.header, h.v.rest) IN
        IF r.k # "ok" THEN r ELSE Ok(ReceivedCommand("interface", r.v))
    ELSE IF h.v.header.packet_type = PacketType_TempHum THEN
        LET r == TempHum_parse(h.v.header, h.v.rest) IN
        IF r.k # "ok" THEN r
        ELSE Ok(ReceivedCommand("protocol", ProtocolMessage_TempHum(r.v)))
    ELSE Ok(ReceivedCommand("protocol",
                            ProtocolMessage_NotParsed(h.v.header, h.v.rest)))

(***************************************************************************)
(* The device: the frames it can put on the wire.                          *)
(***************************************************************************)
\* idle marker
F_idle == <<0>>
\* InterfaceResponse, Status, TRX 433.92, fw 1, Oregon + Keeloq
F_status == <<10, 1, 0, 0, 2, 83, 1, 0, 0, 32, 1>>
\* InterfaceResponse, SetMode
F_setmode == <<4, 1, 0, 0, 3>>
\* TempHum, id 0xABCD, +25.0 C
F_temphum == <<10, 82, 1, 0, 171, 205, 0, 250, 50, 2, 121>>
\* Lighting1: no decoder, NotParsed
F_lighting == <<4, 16, 0, 0, 5>>
\* InterfaceMessage with an empty body
F_if_empty == <<3, 1, 0, 0>>

InFrames == {F_idle, F_status, F_setmode, F_temphum, F_lighting, F_if_empty}

\* the arguments set_mode is called with: <<frequency, p1, p2, p3, p4>>
ModeArgs == {<<Frequency_default, 66, 17, 65, 1>>}

(***************************************************************************)
(* State.                                                                  *)
(***************************************************************************)
VARIABLES
    seqnbr,     \* RFXtrx433.seqnbr
    spc,        \* where the session is: "idle", an await point of an operation, "dropped"
    sres,       \* what the last operation returned
    held,       \* the channel endpoints that have not been dropped
    outq,       \* outbound channel (unbounded): frames to write
    ifq,        \* interface-plane channel (bounded)
    prq,        \* sensor-plane channel (bounded)
    wpc,        \* where the link worker is: "select", "write", "send_if", "send_pr", "done"
    wret,       \* how serial_port ended: "none", "ok", "io_err", "send_err", "panic"
    rd,         \* state of the read_message future the select is polling
    wcur,       \* bytes of the outbound frame still to write
    wmsg,       \* <<msg>>: the decoded message being sent on a plane queue
    wlast,      \* outcome of the last frame read_message returned
    inbuf,      \* bytes the port holds, not yet read
    devRest,    \* bytes of the frame in flight that have not reached the port
    nframes,    \* frames the device has started to send of its own accord
    answered,   \* frames written to the port that the device has dealt with
    written,    \* bytes written to the port
    enq,        \* history: frames enqueued on the outbound channel
    decoded,    \* history: frames parse_message decoded, with their packet type
    ifRecvd,    \* history: interface messages the session consumed
    prRecvd,    \* history: sensor messages the session consumed
    opTrace,    \* history: sends and receives of the current operation
    ncalls,     \* history: calls started, per operation
    nsaves,     \* history: set_mode calls that built the save frame
    arg,        \* codec: the function applied and its arguments
    ret         \* codec: what the function returned

vars == <<seqnbr, spc, sres, held, outq, ifq, prq, wpc, wret, rd, wcur, wmsg, wlast,
          inbuf, devRest, nframes, answered, written, enq, decoded, ifRecvd, prRecvd,
          opTrace, ncalls, nsaves, arg, ret>>

sessionVars == <<seqnbr, spc, sres, ifRecvd, prRecvd, opTrace, ncalls, nsaves, enq>>
workerVars == <<wpc, wret, rd, wcur, wmsg, wlast, written, decoded>>
deviceVars == <<devRest, nframes, answered>>
codecVars == <<arg, ret>>

Endpoints == {"to_serial_tx", "to_serial_rx", "interface_msg_tx", "interface_msg_rx",
              "protocol_msg_tx", "protocol_msg_rx"}

RdInit == [phase |-> "len", size |-> 0, buf |-> <<>>]
NoResult == [op |-> "none", r |-> "none", v |-> <<>>]
NoFrame == [frame |-> <<>>, out |-> "none"]
NoArg == [fn |-> "none", a |-> <<>>]
NoRet == [k |-> "none", v |-> <<>>, e |-> "none", detail |-> <<>>]

\* the session and its worker as new_from_serial_port leaves them
Constructed ==
    /\ seqnbr = 0
    /\ spc = "idle"
    /\ sres = NoResult
    /\ held = Endpoints
    /\ outq = <<>> /\ ifq = <<>> /\ prq = <<>>
    /\ wpc = "select" /\ wret = "none" /\ rd = RdInit /\ wcur = <<>> /\ wmsg = <<>>
    /\ wlast = NoFrame
    /\ inbuf = <<>> /\ devRest = <<>> /\ nframes = 0 /\ answered = 0
    /\ written = <<>>
    /\ enq = <<>> /\ decoded = <<>> /\ ifRecvd = <<>> /\ prRecvd = <<>>
    /\ opTrace = <<>>
    /\ ncalls = [o \in {"reset", "get_status", "start_receiver", "set_mode",
                        "read_message"} |-> 0]
    /\ nsaves = 0

Init == Constructed /\ arg = NoArg /\ ret = NoRet

(***************************************************************************)
(* The device and the port's receive buffer.                               *)
(***************************************************************************)
\* The device sends frame f, the limit-th at most, once the port has been read
\* empty: either the whole frame reaches the port at once (k = Len(f)) or its
\* length byte does first (k = 1).
DeviceSend(limit, f, k) ==
    /\ wpc # "done"
    /\ nframes < limit
    /\ devRest = <<>>
    /\ inbuf = <<>>
    /\ k \in {1, Len(f)}
    /\ inbuf' = inbuf \o Take(f, k)
    /\ devRest' = Drop(f, k)
    /\ nframes' = nframes + 1
    /\ UNCHANGED <<codecVars, answered, sessionVars, workerVars, held, outq, ifq, prq>>

\* The rest of the frame in flight reaches the port.
DeviceRest ==
    /\ wpc # "done"
    /\ devRest # <<>>
    /\ inbuf = <<>>
    /\ inbuf' = inbuf \o devRest
    /\ devRest' = <<>>
    /\ UNCHANGED <<codecVars, nframes, answered, sessionVars, workerVars, held, outq, ifq, prq>>

(***************************************************************************)
(* lib.rs: the link worker, serial_port.                                   *)
(***************************************************************************)
\* (mutant of Terminate: the plane senders outlive the worker)
Terminate_keepSenders(r) ==
    /\ wpc' = "done"
    /\ wret' = r
    /\ held' = held \ {"to_serial_rx"}
    /\ rd' = RdInit
    /\ wcur' = <<>>
    /\ wmsg' = <<>>
    /\ outq' = <<>>
    /\ inbuf' = <<>>
    /\ devRest' = <<>>

\* serial_port returns (or unwinds): its locals are dropped.  These are the
\* outbound receiver (the frames still queued on it go with it), both plane
\* senders, and the port (what it held unread is gone).
Terminate(r) ==
    /\ wpc' = "done"
    /\ wret' = r
    /\ held' = held \ {"to_serial_rx", "interface_msg_tx", "protocol_msg_tx"}
    /\ rd' = RdInit
    /\ wcur' = <<>>
    /\ wmsg' = <<>>
    /\ outq' = <<>>
    /\ inbuf' = <<>>
    /\ devRest' = <<>>

\* (mutant of Route: every decoded message goes to the sensor plane)
Route_allProtocol(rc) == "send_pr"

\* The queue a decoded ReceivedCommand is sent on.
Route(rc) == IF rc.plane = "interface" THEN "send_if" ELSE "send_pr"

\* select!, first branch: to_serial_rx.recv() yields a frame.  The other
\* branch's future, read_message, is dropped with whatever it had read.
WorkerRecvOutbound ==
    /\ wpc = "select"
    /\ outq # <<>>
    /\ wcur' = Head(outq)
    /\ outq' = Tail(outq)
    /\ wpc' = "write"
    /\ rd' = RdInit
    /\ UNCHANGED <<codecVars, wret, wmsg, wlast, written, decoded, held, ifq, prq, inbuf,
                   deviceVars, sessionVars>>

\* (mutant of WorkerRecvClosed: None is ignored and the loop goes on)
WorkerRecvClosed_continue ==
    /\ wpc = "select"
    /\ outq = <<>>
    /\ "to_serial_tx" \notin held
    /\ UNCHANGED vars

\* select!, first branch: the outbound channel is closed and empty: return Ok(()).
WorkerRecvClosed ==
    /\ wpc = "select"
    /\ outq = <<>>
    /\ "to_serial_tx" \notin held
    /\ Terminate("ok")
    /\ UNCHANGED <<codecVars, wlast, written, decoded, ifq, prq, nframes, answered, sessionVars>>

\* (mutant of WorkerWrite: a single write instead of write_all; what the port
\* did not take is not written)
WorkerWrite_once(k) ==
    /\ wpc = "write"
    /\ k \in 1 .. Len(wcur)
    /\ k = Len(wcur) \/ k = WriteChunk
    /\ written' = written \o Take(wcur, k)
    /\ wcur' = <<>>
    /\ wpc' = "select"
    /\ UNCHANGED <<codecVars, wret, rd, wmsg, wlast, decoded, held, outq, ifq, prq, inbuf,
                   deviceVars, sessionVars>>

\* sp.write_all(&msg): the port takes k bytes of what is left of the frame.
WorkerWrite(k) ==
    /\ wpc = "write"
    /\ k \in 1 .. Len(wcur)
    /\ k = Len(wcur) \/ k = WriteChunk
    /\ written' = written \o Take(wcur, k)
    /\ wcur' = Drop(wcur, k)
    /\ wpc' = IF k = Len(wcur) THEN "select" ELSE "write"
    /\ UNCHANGED <<codecVars, wret, rd, wmsg, wlast, decoded, held, outq, ifq, prq, inbuf,
                   deviceVars, sessionVars>>

\* sp.write_all(&msg) fails: `?` returns the error.
WorkerWriteError ==
    /\ wpc = "write"
    /\ Terminate("io_err")
    /\ UNCHANGED <<codecVars, wlast, written, decoded, ifq, prq, nframes, answered, sessionVars>>

\* (mutant of HandleNone: an idle marker is taken for the end of the stream and
\* the worker returns)
HandleNone_return(rest) ==
    /\ Terminate("ok")
    /\ wlast' = [frame |-> <<>>, out |-> "idle"]
    /\ UNCHANGED decoded

\* Ok(None) => {}: an idle marker was read; nothing is done with it.
HandleNone(rest) ==
    /\ rd' = RdInit
    /\ inbuf' = rest
    /\ wlast' = [frame |-> <<>>, out |-> "idle"]
    /\ UNCHANGED <<wpc, wret, wcur, wmsg, decoded, held, outq, devRest>>

\* What one poll of read_message does with the bytes the port holds: read_exact
\* takes what is there, first for the length byte and then for the frame.
\* done: the future completed; frame: <<>> for Ok(None), the buffer for Ok(Some).
PollRead(r, buf) ==
    LET afterLen ==
            IF r.phase = "len"
            THEN [st |-> [phase |-> "body", size |-> Head(buf), buf |-> <<>>],
                  rest |-> Tail(buf)]
            ELSE [st |-> r, rest |-> buf]
        size == afterLen.st.size
        n == Min(Len(afterLen.rest), size - Len(afterLen.st.buf))
        got == afterLen.st.buf \o Take(afterLen.rest, n)
    IN  IF size = 0
        THEN [done |-> TRUE, frame |-> <<>>, st |-> RdInit, rest |-> afterLen.rest]
        ELSE IF Len(got) = size
        THEN [done |-> TRUE, frame |-> got, st |-> RdInit, rest |-> Drop(afterLen.rest, n)]
        ELSE [done |-> FALSE, frame |-> <<>>,
              st |-> [afterLen.st EXCEPT !.buf = got], rest |-> Drop(afterLen.rest, n)]

\* select!, second branch: read_message is polled; when it completes, the
\* frame is decoded and dispatched.
WorkerPollRead ==
    /\ wpc = "select"
    /\ inbuf # <<>>
    /\ LET p == PollRead(rd, inbuf)
           m == parse_message(p.frame)
       IN  IF ~p.done
           THEN /\ rd' = p.st
                /\ inbuf' = p.rest
                /\ UNCHANGED <<wpc, wret, wcur, wmsg, wlast, decoded, held, outq, devRest>>
           ELSE IF p.frame = <<>>
           THEN HandleNone(p.rest)
           ELSE IF m.k = "ok"
           THEN /\ rd' = RdInit
                /\ inbuf' = p.rest
                /\ wpc' = Route(m.v)
                /\ wmsg' = <<m.v.msg>>
                /\ decoded' = Append(decoded, [ptype |-> p.frame[1], msg |-> m.v.msg])
                /\ wlast' = [frame |-> p.frame, out |-> "ok"]
                /\ UNCHANGED <<wret, wcur, held, outq, devRest>>
           ELSE IF m.k = "err"
           THEN \* error!("Parsing error {}", e)
                /\ rd' = RdInit
                /\ inbuf' = p.rest
                /\ wlast' = [frame |-> p.frame, out |-> m.e]
                /\ UNCHANGED <<wpc, wret, wcur, wmsg, decoded, held, outq, devRest>>
           ELSE \* the decoder panicked: the task unwinds
                /\ Terminate("panic")
                /\ wlast' = [frame |-> p.frame, out |-> "panic"]
                /\ UNCHANGED decoded
    /\ UNCHANGED <<codecVars, written, ifq, prq, nframes, answered, sessionVars>>

\* read_exact fails: Err(e) => return Err(e).
WorkerReadError ==
    /\ wpc = "select"
    /\ Terminate("io_err")
    /\ UNCHANGED <<codecVars, wlast, written, decoded, ifq, prq, nframes, answered, sessionVars>>

\* interface_msg_tx.send(msg).await: waits for room; fails when the receiver is gone.
WorkerSendInterface ==
    /\ wpc = "send_if"
    /\ IF "interface_msg_rx" \notin held
       THEN Terminate("send_err") /\ UNCHANGED ifq
       ELSE /\ Len(ifq) < MESSAGE_QUEUE_LEN
            /\ ifq' = Append(ifq, wmsg[1])
            /\ wpc' = "select"
            /\ wmsg' = <<>>
            /\ UNCHANGED <<wret, rd, wcur, held, outq, inbuf, devRest>>
    /\ UNCHANGED <<codecVars, wlast, written, decoded, prq, nframes, answered, sessionVars>>

\* (mutant of WorkerSendProtocol: try_send, a message that finds the queue
\* full is dropped)
WorkerSendProtocol_dropWhenFull ==
    /\ wpc = "send_pr"
    /\ IF "protocol_msg_rx" \notin held
       THEN Terminate("send_err") /\ UNCHANGED prq
       ELSE /\ prq' = IF Len(prq) < MESSAGE_QUEUE_LEN THEN Append(prq, wmsg[1]) ELSE prq
            /\ wpc' = "select"
            /\ wmsg' = <<>>
            /\ UNCHANGED <<wret, rd, wcur, held, outq, inbuf, devRest>>
    /\ UNCHANGED <<codecVars, wlast, written, decoded, ifq, nframes, answered, sessionVars>>

\* protocol_msg_tx.send(msg).await
WorkerSendProtocol ==
    /\ wpc = "send_pr"
    /\ IF "protocol_msg_rx" \notin held
       THEN Terminate("send_err") /\ UNCHANGED prq
       ELSE /\ Len(prq) < MESSAGE_QUEUE_LEN
            /\ prq' = Append(prq, wmsg[1])
            /\ wpc' = "select"
            /\ wmsg' = <<>>
            /\ UNCHANGED <<wret, rd, wcur, held, outq, inbuf, devRest>>
    /\ UNCHANGED <<codecVars, wlast, written, decoded, ifq, nframes, answered, sessionVars>>

(***************************************************************************)
(* lib.rs: the session facade, RFXtrx433.                                  *)
(***************************************************************************)
\* (mutant of next_seqnbr: the counter is read but not advanced)
next_seqnbr_stuck(n) == n

\* (mutant of next_seqnbr: the counter saturates at 255 instead of wrapping)
next_seqnbr_saturating(n) == IF n = 255 THEN 255 ELSE n + 1

next_seqnbr(n) == (n + 1) % 256          \* wrapping_add(1) on a u8

\* v: <<>> or <<value>>; x: the frame sent, or <<msg>> for the message received
Result(op, r, v) == [op |-> op, r |-> r, v |-> v]
SendEv(f) == [e |-> "send", x |-> f]
RecvEv(m) == [e |-> "recv", x |-> <<m>>]

\* recv() on a plane channel completes: with the oldest message, or with None
\* when the queue is empty and the sender is gone.
RecvReady(q, tx) == q # <<>> \/ tx \notin held
\* (mutant of RecvMsg: the newest message is handed out instead of the oldest)
RecvMsg_newest(q) == q[Len(q)]

RecvMsg(q) == Head(q)
RecvRest(q) == Tail(q)

\* operations called so far
NCalls == ncalls["reset"] + ncalls["get_status"] + ncalls["start_receiver"]
            + ncalls["set_mode"] + ncalls["read_message"]

\* (mutant of Call: a failed outbound send is ignored and the operation goes
\* on to its await point)
Call_ignoreSendError(limit, op, frame, await) ==
    /\ spc = "idle"
    /\ NCalls < limit
    /\ ncalls' = [ncalls EXCEPT ![op] = @ + 1]
    /\ seqnbr' = next_seqnbr(seqnbr)
    /\ opTrace' = <<SendEv(frame)>>
    /\ spc' = await
    /\ sres' = NoResult
    /\ IF "to_serial_rx" \in held
       THEN /\ outq' = Append(outq, frame)
            /\ enq' = Append(enq, frame)
       ELSE UNCHANGED <<outq, enq>>
    /\ UNCHANGED <<codecVars, nsaves, ifRecvd, prRecvd, held, ifq, prq, inbuf, workerVars, deviceVars>>

\* An operation is called, the limit-th at most: it takes the next sequence
\* number, builds `frame` and sends it on the outbound channel (an unbounded
\* send: it never waits and fails only when the receiver is gone).
Call(limit, op, frame, await) ==
    /\ spc = "idle"
    /\ NCalls < limit
    /\ ncalls' = [ncalls EXCEPT ![op] = @ + 1]
    /\ seqnbr' = next_seqnbr(seqnbr)
    /\ IF "to_serial_rx" \in held
       THEN /\ outq' = Append(outq, frame)
            /\ enq' = Append(enq, frame)
            /\ opTrace' = <<SendEv(frame)>>
            /\ spc' = await
            /\ sres' = NoResult
       ELSE /\ opTrace' = <<>>
            /\ sres' = Result(op, "TokioSendError", <<>>)
            /\ UNCHANGED <<outq, enq, spc>>
    /\ UNCHANGED <<codecVars, nsaves, ifRecvd, prRecvd, held, ifq, prq, inbuf, workerVars, deviceVars>>

CallReset(limit) == Call(limit, "reset", reset(seqnbr), "reset_sleep")

\* (mutant of ResetWake: reset takes a reply off the interface queue when
\* there is one)
ResetWake_takesReply ==
    /\ spc = "reset_sleep"
    /\ spc' = "idle"
    /\ sres' = Result("reset", "Ok", <<>>)
    /\ ifq' = IF ifq = <<>> THEN ifq ELSE RecvRest(ifq)
    /\ ifRecvd' = IF ifq = <<>> THEN ifRecvd ELSE Append(ifRecvd, RecvMsg(ifq))
    /\ UNCHANGED <<codecVars, seqnbr, prRecvd, opTrace, ncalls, nsaves, enq, held, outq,
                   prq, inbuf, workerVars, deviceVars>>

\* tokio::time::sleep(1000 ms) is over: Ok(())
ResetWake ==
    /\ spc = "reset_sleep"
    /\ spc' = "idle"
    /\ sres' = Result("reset", "Ok", <<>>)
    /\ UNCHANGED <<codecVars, seqnbr, ifRecvd, prRecvd, opTrace, ncalls, nsaves, enq, held, outq,
                   ifq, prq, inbuf, workerVars, deviceVars>>

CallGetStatus(limit) == Call(limit, "get_status", get_status(seqnbr), "gs_recv")

\* (mutant of InterfaceRecv: an operation that fails on the message it got
\* closes the interface receiver)
InterfaceRecv_closeOnError(at, op, res) ==
    /\ spc = at
    /\ RecvReady(ifq, "interface_msg_tx")
    /\ spc' = "idle"
    /\ IF ifq # <<>>
       THEN /\ ifRecvd' = Append(ifRecvd, RecvMsg(ifq))
            /\ opTrace' = Append(opTrace, RecvEv(RecvMsg(ifq)))
            /\ sres' = res
            /\ IF res.r = "Ok"
               THEN ifq' = RecvRest(ifq) /\ UNCHANGED held
               ELSE ifq' = <<>> /\ held' = held \ {"interface_msg_rx"}
       ELSE /\ sres' = Result(op, "Shutdown", <<>>)
            /\ UNCHANGED <<ifq, ifRecvd, opTrace, held>>
    /\ UNCHANGED <<codecVars, seqnbr, prRecvd, ncalls, nsaves, enq, outq, prq, inbuf,
                   workerVars, deviceVars>>

\* interface_msg_rx.recv().await of an operation at await point `at` completes;
\* the operation returns `res` (computed from the message) for a message and
\* Shutdown for None.
InterfaceRecv(at, op, res) ==
    /\ spc = at
    /\ RecvReady(ifq, "interface_msg_tx")
    /\ spc' = "idle"
    /\ IF ifq # <<>>
       THEN /\ ifq' = RecvRest(ifq)
            /\ ifRecvd' = Append(ifRecvd, RecvMsg(ifq))
            /\ opTrace' = Append(opTrace, RecvEv(RecvMsg(ifq)))
            /\ sres' = res
       ELSE /\ sres' = Result(op, "Shutdown", <<>>)
            /\ UNCHANGED <<ifq, ifRecvd, opTrace>>
    /\ UNCHANGED <<codecVars, seqnbr, prRecvd, ncalls, nsaves, enq, held, outq, prq, inbuf,
                   workerVars, deviceVars>>

RFXtrx433Info(cmd) ==
    [frequency |-> cmd.frequency, enabled_protocols |-> cmd.enabled_protocols]

\* (mutant of get_status_result: the message is not matched against Status)
get_status_result_unchecked(cmd) == Result("get_status", "Ok", <<RFXtrx433Info(cmd)>>)

get_status_result(cmd) ==
    IF cmd.t = "Status"
    THEN Result("get_status", "Ok", <<RFXtrx433Info(cmd)>>)
    ELSE Result("get_status", "UnexpectedMessage", <<>>)

GetStatusRecv == InterfaceRecv("gs_recv", "get_status", get_status_result(RecvMsg(ifq)))

CallStartReceiver(limit) ==
    Call(limit, "start_receiver", start_receiver(seqnbr), "sr_recv")

start_receiver_result(cmd) == Result("start_receiver", "Ok", <<>>)

StartReceiverRecv == InterfaceRecv("sr_recv", "start_receiver", start_receiver_result(RecvMsg(ifq)))

CallSetMode(limit, a) ==
    Call(limit, "set_mode", set_mode(seqnbr, a[1], a[2], a[3], a[4], a[5]), "sm_recv1")

\* (mutant of SetModeRecv1: the result of the first recv is ignored, so the
\* save frame is sent also when the recv failed)
SetModeRecv1_ignoreRecv ==
    /\ spc = "sm_recv1"
    /\ RecvReady(ifq, "interface_msg_tx")
    /\ seqnbr' = next_seqnbr(seqnbr)
    /\ nsaves' = nsaves + 1
    /\ ifq' = IF ifq = <<>> THEN ifq ELSE RecvRest(ifq)
    /\ ifRecvd' = IF ifq = <<>> THEN ifRecvd ELSE Append(ifRecvd, RecvMsg(ifq))
    /\ outq' = IF "to_serial_rx" \in held THEN Append(outq, save(seqnbr)) ELSE outq
    /\ enq' = Append(enq, save(seqnbr))
    /\ opTrace' = opTrace \o (IF ifq = <<>> THEN <<>> ELSE <<RecvEv(RecvMsg(ifq))>>)
                          \o <<SendEv(save(seqnbr))>>
    /\ spc' = "sm_recv2"
    /\ sres' = NoResult
    /\ UNCHANGED <<codecVars, prRecvd, ncalls, held, prq, inbuf, workerVars, deviceVars>>

\* set_mode, after its first recv: the ack is dropped, then the save frame is
\* built with the next sequence number and sent.
SetModeRecv1 ==
    /\ spc = "sm_recv1"
    /\ RecvReady(ifq, "interface_msg_tx")
    /\ IF ifq = <<>>
       THEN /\ spc' = "idle"
            /\ sres' = Result("set_mode", "Shutdown", <<>>)
            /\ UNCHANGED <<seqnbr, ifq, ifRecvd, opTrace, nsaves, outq, enq>>
       ELSE /\ ifq' = RecvRest(ifq)
            /\ ifRecvd' = Append(ifRecvd, RecvMsg(ifq))
            /\ seqnbr' = next_seqnbr(seqnbr)
            /\ nsaves' = nsaves + 1
            /\ IF "to_serial_rx" \in held
               THEN /\ outq' = Append(outq, save(seqnbr))
                    /\ enq' = Append(enq, save(seqnbr))
                    /\ opTrace' = opTrace \o <<RecvEv(RecvMsg(ifq)), SendEv(save(seqnbr))>>
                    /\ spc' = "sm_recv2"
                    /\ sres' = NoResult
               ELSE /\ opTrace' = Append(opTrace, RecvEv(RecvMsg(ifq)))
                    /\ spc' = "idle"
                    /\ sres' = Result("set_mode", "TokioSendError", <<>>)
                    /\ UNCHANGED <<outq, enq>>
    /\ UNCHANGED <<codecVars, prRecvd, ncalls, held, prq, inbuf, workerVars, deviceVars>>

set_mode_result(cmd) == Result("set_mode", "Ok", <<>>)

SetModeRecv2 == InterfaceRecv("sm_recv2", "set_mode", set_mode_result(RecvMsg(ifq)))

\* read_message is called: nothing is sent, the sequence counter is not used.
CallReadMessage(limit) ==
    /\ spc = "idle"
    /\ NCalls < limit
    /\ ncalls' = [ncalls EXCEPT !["read_message"] = @ + 1]
    /\ spc' = "rm_recv"
    /\ opTrace' = <<>>
    /\ sres' = NoResult
    /\ UNCHANGED <<codecVars, seqnbr, nsaves, ifRecvd, prRecvd, enq, held, outq, ifq, prq, inbuf,
                   workerVars, deviceVars>>

\* (mutant of ReadMessageRecv: recv() yields None as soon as the sender is
\* gone, whatever is still queued)
ReadMessageRecv_shutdownFirst ==
    /\ spc = "rm_recv"
    /\ RecvReady(prq, "protocol_msg_tx")
    /\ spc' = "idle"
    /\ IF "protocol_msg_tx" \in held
       THEN /\ prq' = RecvRest(prq)
            /\ prRecvd' = Append(prRecvd, RecvMsg(prq))
            /\ opTrace' = Append(opTrace, RecvEv(RecvMsg(prq)))
            /\ sres' = Result("read_message", "Ok", <<RecvMsg(prq)>>)
       ELSE /\ sres' = Result("read_message", "Shutdown", <<>>)
            /\ UNCHANGED <<prq, prRecvd, opTrace>>
    /\ UNCHANGED <<codecVars, seqnbr, ifRecvd, ncalls, nsaves, enq, held, outq, ifq, inbuf,
                   workerVars, deviceVars>>

\* protocol_msg_rx.recv().await completes.
ReadMessageRecv ==
    /\ spc = "rm_recv"
    /\ RecvReady(prq, "protocol_msg_tx")
    /\ spc' = "idle"
    /\ IF prq # <<>>
       THEN /\ prq' = RecvRest(prq)
            /\ prRecvd' = Append(prRecvd, RecvMsg(prq))
            /\ opTrace' = Append(opTrace, RecvEv(RecvMsg(prq)))
            /\ sres' = Result("read_message", "Ok", <<RecvMsg(prq)>>)
       ELSE /\ sres' = Result("read_message", "Shutdown", <<>>)
            /\ UNCHANGED <<prq, prRecvd, opTrace>>
    /\ UNCHANGED <<codecVars, seqnbr, ifRecvd, ncalls, nsaves, enq, held, outq, ifq, inbuf,
                   workerVars, deviceVars>>

\* The owner drops the session (after cancelling the operation in flight, if
\* any): the outbound sender and both plane receivers are dropped, and with
\* the receivers the messages still queued on them.  Frames already on the
\* outbound channel stay there for the worker.
DropSession ==
    /\ spc # "dropped"
    /\ spc' = "dropped"
    /\ held' = held \ {"to_serial_tx", "interface_msg_rx", "protocol_msg_rx"}
    /\ ifq' = <<>>
    /\ prq' = <<>>
    /\ UNCHANGED <<codecVars, seqnbr, sres, ifRecvd, prRecvd, opTrace, ncalls, nsaves, enq, outq,
                   inbuf, workerVars, deviceVars>>

(***************************************************************************)
(* Specifications.                                                         *)
(***************************************************************************)
Device == \/ \E f \in InFrames : \E k \in {1, Len(f)} : DeviceSend(MaxInFrames, f, k)
          \/ DeviceRest

Worker == \/ WorkerRecvOutbound
          \/ WorkerRecvClosed
          \/ \E k \in 1 .. 14 : WorkerWrite(k)
          \/ WorkerPollRead
          \/ WorkerSendInterface
          \/ WorkerSendProtocol

PortFailure == WorkerReadError \/ WorkerWriteError

SessionCall == \/ CallReset(MaxOps)
               \/ CallGetStatus(MaxOps)
               \/ CallStartReceiver(MaxOps)
               \/ \E a \in ModeArgs : CallSetMode(MaxOps, a)
               \/ CallReadMessage(MaxOps)

SessionResume == \/ ResetWake
                 \/ GetStatusRecv
                 \/ StartReceiverRecv
                 \/ SetModeRecv1
                 \/ SetModeRecv2
                 \/ ReadMessageRecv

Next == Device \/ Worker \/ PortFailure \/ SessionCall \/ SessionResume \/ DropSession

Spec == Init /\ [][Next]_vars

\* A burst of frames, enough to fill a plane queue, with a session that asks
\* for the status or reads a sensor message.
\* A burst is of one kind of frame, sensor readings or status replies: the
\* frame sent is of the type of those decoded so far.
DeviceBurst(f) ==
    /\ DeviceSend(MaxBurst, f, Len(f))
    /\ \A i \in 1 .. Len(decoded) : decoded[i].ptype = f[2]

BurstNext ==
    \/ DeviceBurst(F_temphum)
    \/ DeviceBurst(F_status)
    \/ WorkerRecvOutbound
    \/ WorkerRecvClosed
    \/ \E k \in 1 .. 14 : WorkerWrite(k)
    \/ WorkerPollRead
    \/ WorkerSendInterface
    \/ WorkerSendProtocol
    \/ PortFailure
    \/ CallGetStatus(BurstOps)
    \/ GetStatusRecv
    \/ CallReadMessage(BurstOps)
    \/ ReadMessageRecv
    \/ DropSession

\* The runtime polls a task that can make progress, and port writes complete:
\* the worker takes a step when it can, and so does an operation whose await
\* can complete.  Nothing is assumed of the device, of the caller or of port
\* failures.
Fairness ==
    /\ WF_vars(Worker)
    /\ WF_vars(SessionResume)

BurstSpec == Init /\ [][BurstNext]_vars /\ Fairness

(***************************************************************************)
(* The codec on its own: one function of trx_command.rs applied to         *)
(* arguments drawn from the sets below.                                    *)
(***************************************************************************)
\* the longest TempHum body tried
MaxBody == 8

SeqNbrs == 0 .. 255
SomeSeqNbrs == {0, 18, 255}
SomeMasks == {0, 66, 255}
SomeSubTypes == {0, 7, 255}
Payloads == {<<>>, <<2>>, <<2, 83, 1>>}
Builders == {"reset", "get_status", "start_receiver", "save"}

\* a builder and its sequence number
BuilderArgs == [fn : Builders, a : {<<n>> : n \in SeqNbrs}]
\* set_mode: <<seqnbr, frequency, protos_1 .. protos_4>>
SetModeArgs ==
    [fn : {"set_mode"},
     a : {<<n, f, p1, p2, p3, p4>> :
            n \in SomeSeqNbrs, f \in Frequency,
            p1 \in SomeMasks, p2 \in SomeMasks, p3 \in SomeMasks, p4 \in SomeMasks}]
\* a header and the payload that follows it: <<packet_type, sub_type, seqnbr>> \o payload
HeaderArgs ==
    [fn : {"header"},
     a : {<<pt, st, sn>> \o p :
            pt \in PacketType, st \in SomeSubTypes, sn \in SomeSeqNbrs, p \in Payloads}]
\* a TempHum body of n bytes with temperature bytes b2, b3
TempHumBody(n, b2, b3) ==
    [i \in 1 .. n |-> CASE i = 1 -> 171 [] i = 2 -> 205 [] i = 3 -> b2 [] i = 4 -> b3
                        [] i = 5 -> 50 [] i = 6 -> 2 [] i = 7 -> 121 [] OTHER -> 0]
TempHumArgs ==
    [fn : {"TempHum_parse"},
     a : {TempHumBody(n, b2, b3) : n \in 0 .. MaxBody, b2 \in 0 .. 255, b3 \in {0, 1, 250, 255}}]
\* the body of an InterfaceMessage frame
InterfaceBodies ==
    {<<>>} \cup {<<c>> : c \in 0 .. 255}
    \cup {<<c, f, 1, 0, 0, 32, 1>> : c \in 0 .. 8, f \in Frequency \cup {0, 86}}
    \cup {<<2, 83, fw, p, 0, 32, 255>> : fw \in {0, 1, 255}, p \in SomeMasks}
    \cup {<<2, 83>>, <<2, 83, 1>>, <<2, 83, 1, 0, 0, 32>>, <<2, 83, 1, 0, 0, 32, 1, 9>>}
\* an InterfaceMessage frame, after its length byte; sub-type 5 is not a known one
InterfaceFrameArgs ==
    [fn : {"parse_message"},
     a : {<<PacketType_InterfaceMessage, st, 0>> \o b :
            st \in InterfaceMessageSubType \cup {5}, b \in InterfaceBodies}]

CodecArgs == BuilderArgs \cup SetModeArgs \cup HeaderArgs \cup TempHumArgs
             \cup InterfaceFrameArgs

programVars == <<sessionVars, workerVars, deviceVars, held, outq, ifq, prq, inbuf>>

\* what a decoder returned, in one shape: v is <<>> or <<value>>, detail is
\* <<received, expected>> of NotEnoughData
Outcome(r) ==
    [k |-> r.k, v |-> IF r.k = "ok" THEN <<r.v>> ELSE <<>>, e |-> r.e,
     detail |-> IF r.e = "NotEnoughData" THEN <<r.received, r.expected>> ELSE <<>>]

CodecInit == Constructed /\ arg \in CodecArgs /\ ret = NoRet

\* one of the command builders is called
ApplyBuilder ==
    /\ arg.fn \in Builders \cup {"set_mode"}
    /\ ret = NoRet
    /\ LET a == arg.a
           frame == CASE arg.fn = "reset" -> reset(a[1])
                      [] arg.fn = "get_status" -> get_status(a[1])
                      [] arg.fn = "start_receiver" -> start_receiver(a[1])
                      [] arg.fn = "save" -> save(a[1])
                      [] arg.fn = "set_mode" -> set_mode(a[1], a[2], a[3], a[4], a[5], a[6])
       IN  ret' = Outcome(Ok(frame))
    /\ UNCHANGED <<arg, programVars>>

\* a header is written in front of a payload (PacketHeader::extend, then the
\* payload is pushed as to_vec does); what follows the length byte is parsed
ApplyHeaderRoundTrip ==
    /\ arg.fn = "header"
    /\ ret = NoRet
    /\ LET h == PacketHeader(arg.a[1], arg.a[2], arg.a[3])
           frame == PacketHeader_extend(h, <<>>) \o Drop(arg.a, 3)
       IN  ret' = Outcome(PacketHeader_parse(Drop(frame, 1)))
    /\ UNCHANGED <<arg, programVars>>

\* TempHum::parse on a body
ApplyTempHumParse ==
    /\ arg.fn = "TempHum_parse"
    /\ ret = NoRet
    /\ ret' = Outcome(TempHum_parse(PacketHeader(PacketType_TempHum, 1, 0), arg.a))
    /\ UNCHANGED <<arg, programVars>>

\* parse_message on a frame
ApplyParseMessage ==
    /\ arg.fn = "parse_message"
    /\ ret = NoRet
    /\ ret' = Outcome(parse_message(arg.a))
    /\ UNCHANGED <<arg, programVars>>

CodecNext == ApplyBuilder \/ ApplyHeaderRoundTrip \/ ApplyTempHumParse \/ ApplyParseMessage

CodecSpec == CodecInit /\ [][CodecNext]_vars

(***************************************************************************)
(* A device that answers: it takes the frames written to the port in       *)
(* order and answers each get_status, start_receiver, set-mode and save    *)
(* frame with one interface message; it does not answer a reset.           *)
(***************************************************************************)
\* number of session operations called in a behaviour of ReplySpec
ReplyOps == 2
\* number of sensor frames the device sends in a behaviour of ReplySpec
MaxSensor == 1
\* number of session operations called in a behaviour of WrapSpec
WrapOps == 257

\* the length of a command frame: header 4, cmd, frequency, xmitpwr, extra 7
CommandFrameLen == 14

\* InterfaceResponse, Save
F_save == <<4, 1, 0, 0, 6>>
\* RecStarted, StartReceiver
F_recstarted == <<4, 1, 7, 0, 7>>
\* Lighting1, ARC, house code A, unit code 3, On
F_arc == <<7, 16, 1, 0, 65, 3, 1, 112>>

SensorFrames == {F_temphum, F_arc}

\* the i-th frame written to the port
WrittenFrame(i) == SubSeq(written, CommandFrameLen * (i - 1) + 1, CommandFrameLen * i)
NWritten == Len(written) \div CommandFrameLen

\* the device's answer to a command frame of command code cmd
Reply(cmd) ==
    CASE cmd = InterfaceCommandCmd_Status -> F_status
      [] cmd = InterfaceCommandCmd_SetMode -> F_setmode
      [] cmd = InterfaceCommandCmd_Save -> F_save
      [] cmd = InterfaceCommandCmd_StartReceiver -> F_recstarted
      [] OTHER -> <<>>

\* The device deals with the next frame written to the port, once the port
\* has been read empty: its answer reaches the port whole; a reset gets none.
DeviceAnswer ==
    /\ wpc # "done"
    /\ answered < NWritten
    /\ devRest = <<>>
    /\ inbuf = <<>>
    /\ answered' = answered + 1
    /\ inbuf' = Reply(WrittenFrame(answered + 1)[5])
    /\ UNCHANGED <<codecVars, devRest, nframes, sessionVars, workerVars, held, outq, ifq, prq>>

DeviceSensor ==
    \E f \in SensorFrames : \E k \in {1, Len(f)} : DeviceSend(MaxSensor, f, k)

ReplyCall == \/ CallReset(ReplyOps)
             \/ CallGetStatus(ReplyOps)
             \/ CallStartReceiver(ReplyOps)
             \/ \E a \in ModeArgs : CallSetMode(ReplyOps, a)
             \/ CallReadMessage(ReplyOps)

\* the worker of a session that is not dropped
LiveWorker == \/ WorkerRecvOutbound
              \/ \E k \in 1 .. 14 : WorkerWrite(k)
              \/ WorkerPollRead
              \/ WorkerSendInterface
              \/ WorkerSendProtocol

ReplyNext ==
    \/ DeviceSensor
    \/ DeviceRest
    \/ DeviceAnswer
    \/ LiveWorker
    \/ ReplyCall
    \/ SessionResume

\* a single-user session and a working port, with a device that answers
ReplySpec == Init /\ [][ReplyNext]_vars

\* A long-lived session that repeats one control operation, with the device
\* that answers and no sensor traffic.
OnlyCalled(op) == ncalls[op] = NCalls

WrapCall == \/ CallReset(WrapOps) /\ OnlyCalled("reset")
            \/ CallGetStatus(WrapOps) /\ OnlyCalled("get_status")
            \/ CallStartReceiver(WrapOps) /\ OnlyCalled("start_receiver")
            \/ \E a \in ModeArgs : CallSetMode(WrapOps, a) /\ OnlyCalled("set_mode")

\* The second that reset sleeps outlasts the write of its 14 bytes at 38400
\* baud: when reset wakes its frame has been written and the device has it.
WrapResetWake ==
    /\ outq = <<>>
    /\ wcur = <<>>
    /\ answered = NWritten
    /\ ResetWake

WrapNext ==
    \/ DeviceAnswer
    \/ WorkerRecvOutbound
    \/ \E k \in 1 .. 14 : WorkerWrite(k)
    \/ WorkerPollRead
    \/ WorkerSendInterface
    \/ WrapCall
    \/ WrapResetWake
    \/ GetStatusRecv
    \/ StartReceiverRecv
    \/ SetModeRecv1
    \/ SetModeRecv2

WrapSpec == Init /\ [][WrapNext]_vars

\* A session that only reads sensor messages, on a port that may fail.
DrainFrames == 3
DrainOps == 4

DrainNext ==
    \/ \E f \in SensorFrames : \E k \in {1, Len(f)} : DeviceSend(DrainFrames, f, k)
    \/ DeviceRest
    \/ WorkerPollRead
    \/ WorkerSendProtocol
    \/ WorkerReadError
    \/ CallReadMessage(DrainOps)
    \/ ReadMessageRecv

\* the runtime resumes the session's recv().await once it can complete
DrainFairness == WF_vars(ReadMessageRecv)

DrainSpec == Init /\ [][DrainNext]_vars /\ DrainFairness

(***************************************************************************)
(* Helpers of the properties.                                              *)
(***************************************************************************)
IsPrefix(s, t) == Len(s) <= Len(t) /\ s = Take(t, Len(s))

RECURSIVE Concat(_)
Concat(ss) == IF ss = <<>> THEN <<>> ELSE Head(ss) \o Concat(Tail(ss))

IsInterfaceFrame(d) == d.ptype = PacketType_InterfaceMessage
IsSensorFrame(d) == d.ptype # PacketType_InterfaceMessage
Msgs(ds) == [i \in 1 .. Len(ds) |-> ds[i].msg]
\* the decoded messages whose frame had packet type InterfaceMessage / any other type
IfDecoded == Msgs(SelectSeq(decoded, IsInterfaceFrame))
PrDecoded == Msgs(SelectSeq(decoded, IsSensorFrame))
\* the message the worker is about to send on a plane queue
Pending(pc) == IF wpc = pc THEN wmsg ELSE <<>>

PrevSeq == (seqnbr + 255) % 256
Returned(op) == spc = "idle" /\ sres.op = op

(***************************************************************************)
(* C1: the link worker never terminates because of the content of an       *)
(* inbound frame: it stops only on port I/O failure, a failed plane send   *)
(* or closure of the outbound channel.                                     *)
(* Violated: some frames make the decoder panic, which ends the worker.    *)
(***************************************************************************)
C1_StopsOnlyOnIoSendOrClose == wpc = "done" => wret \in {"ok", "io_err", "send_err"}

(***************************************************************************)
(* C2: while the session holds the plane receivers, every frame that       *)
(* decoded successfully is on exactly one plane queue exactly once: the    *)
(* frames of packet type InterfaceMessage, in order, are exactly what the  *)
(* interface queue has carried (consumed, queued, or being sent), all      *)
(* other decoded frames are exactly what the sensor queue has carried.     *)
(***************************************************************************)
C2_ExactlyOnePlane ==
    (spc # "dropped" /\ wret # "send_err") =>
        /\ IfDecoded = ifRecvd \o ifq \o Pending("send_if")
        /\ PrDecoded = prRecvd \o prq \o Pending("send_pr")

C2_Witness ==
    /\ wpc = "select"
    /\ Len(ifq) = 1
    /\ Len(prq) = 1
    /\ prq[1].t = "NotParsed"
    /\ Len(decoded) = 2

(***************************************************************************)
(* C3: a get_status call that got an interface message has enqueued        *)
(* exactly one frame, the get-status frame, and then consumed exactly that *)
(* one message; it returns the message's frequency and enabled protocols   *)
(* if the message is Status and fails with UnexpectedMessage otherwise.    *)
(***************************************************************************)
C3_GetStatus ==
    Returned("get_status") =>
        /\ sres.r \in {"Ok", "UnexpectedMessage", "Shutdown", "TokioSendError"}
        /\ sres.r \in {"Ok", "UnexpectedMessage"} =>
            /\ Len(opTrace) = 2
            /\ opTrace[1] = SendEv(get_status(PrevSeq))
            /\ enq[Len(enq)] = get_status(PrevSeq)
            /\ opTrace[2].e = "recv"
            /\ ifRecvd[Len(ifRecvd)] = opTrace[2].x[1]
            /\ IF opTrace[2].x[1].t = "Status"
               THEN /\ sres.r = "Ok"
                    /\ sres.v[1].frequency = opTrace[2].x[1].frequency
                    /\ sres.v[1].enabled_protocols = opTrace[2].x[1].enabled_protocols
               ELSE sres.r = "UnexpectedMessage"
        /\ sres.r \in {"Shutdown", "TokioSendError"} =>
            \A i \in 1 .. Len(opTrace) : opTrace[i].e # "recv"

\* two get_status calls: the first got a Status, the second another message
C3_Witness ==
    /\ Returned("get_status")
    /\ ncalls["get_status"] = 2
    /\ sres.r = "UnexpectedMessage"
    /\ Len(ifRecvd) = 2
    /\ ifRecvd[1].t = "Status"

(***************************************************************************)
(* C4: the sends and receives of a set_mode call are, in this order: the   *)
(* set-mode frame enqueued, one interface message consumed, the save frame *)
(* enqueued, a second interface message consumed.  The save frame is never *)
(* enqueued before the first message is consumed, and never when the       *)
(* first receive failed.                                                   *)
(***************************************************************************)
SetModeShape == <<"send", "recv", "send", "recv">>

C4_SetModeOrder ==
    (spc \in {"sm_recv1", "sm_recv2"} \/ Returned("set_mode")) =>
        /\ Len(opTrace) <= 4
        /\ \A i \in 1 .. Len(opTrace) : opTrace[i].e = SetModeShape[i]
        /\ Len(opTrace) >= 1 => opTrace[1].x[5] = InterfaceCommandCmd_SetMode
        /\ Len(opTrace) >= 3 => opTrace[3].x = save((opTrace[1].x[4] + 1) % 256)
        /\ spc = "sm_recv1" => Len(opTrace) = 1
        /\ spc = "sm_recv2" => Len(opTrace) = 3
        /\ (Returned("set_mode") /\ sres.r = "Ok") => Len(opTrace) = 4
        /\ (Returned("set_mode") /\ sres.r = "Shutdown") => Len(opTrace) \in {1, 3}
        \* the frames this call put on the outbound channel are those of its trace
        /\ Len(opTrace) \in {1, 2} => enq[Len(enq)] = opTrace[1].x
        /\ Len(opTrace) >= 3 =>
            /\ Len(enq) >= 2
            /\ enq[Len(enq) - 1] = opTrace[1].x
            /\ enq[Len(enq)] = opTrace[3].x

C4_Witness ==
    /\ Returned("set_mode")
    /\ sres.r = "Ok"
    /\ Len(opTrace) = 4
    /\ Len(written) = 28

(***************************************************************************)
(* C5 as stated: the sequence counter has advanced by one for each reset,  *)
(* get_status and start_receiver call and by two for each set_mode call.   *)
(* Violated by a set_mode call that fails before it builds the save frame. *)
(***************************************************************************)
C5_TwoPerSetMode ==
    spc = "idle" =>
        seqnbr = (ncalls["reset"] + ncalls["get_status"] + ncalls["start_receiver"]
                  + 2 * ncalls["set_mode"]) % 256

(***************************************************************************)
(* C5 amended: the sequence counter advances by one for each reset,        *)
(* get_status and start_receiver call; for a set_mode call by one when it  *)
(* is called and by one more when its first receive has returned a message *)
(* (two for a call that gets that far, one for a call that fails before);  *)
(* nothing else changes it.                                                *)
(***************************************************************************)
C5_OnePerFrameBuilt ==
    /\ seqnbr = (ncalls["reset"] + ncalls["get_status"] + ncalls["start_receiver"]
                 + ncalls["set_mode"] + nsaves) % 256
    /\ nsaves <= ncalls["set_mode"]
    /\ (Returned("set_mode") /\ sres.r = "Ok") => nsaves >= 1

\* one set_mode call that returned Ok, then one that failed at its first send
C5_Witness ==
    /\ spc = "idle"
    /\ ncalls["set_mode"] = 2
    /\ nsaves = 1
    /\ seqnbr = 3

(***************************************************************************)
(* C8: within each plane the session consumes messages in the order their  *)
(* frames were decoded: what read_message has returned so far is a prefix  *)
(* of the decoded sensor-plane messages, and what the control operations   *)
(* have consumed is a prefix of the decoded interface messages.            *)
(***************************************************************************)
C8_PlaneOrder ==
    /\ IsPrefix(prRecvd, PrDecoded)
    /\ IsPrefix(ifRecvd, IfDecoded)

C8_Witness ==
    /\ Len(prRecvd) = 2
    /\ prRecvd[1] # prRecvd[2]
    /\ spc = "idle"

(***************************************************************************)
(* C9: whenever the link worker is in its select, the bytes written to the *)
(* port are the concatenation of the first n frames enqueued on the        *)
(* outbound channel, n being the number of frames taken off the channel.   *)
(***************************************************************************)
C9_WholeFramesInOrder ==
    wpc = "select" =>
        /\ Len(enq) >= Len(outq)
        /\ written = Concat(Take(enq, Len(enq) - Len(outq)))

C9_Witness ==
    /\ wpc = "select"
    /\ Len(written) = 28
    /\ outq = <<>>
    /\ Len(decoded) >= 1

(***************************************************************************)
(* C10: when the worker reads a frame whose length byte is zero, nothing   *)
(* is put on either plane queue, nothing counts as decoded, and the worker *)
(* is back in its select.                                                  *)
(***************************************************************************)
C10_IdleNotForwarded ==
    [][(WorkerPollRead /\ rd.phase = "len" /\ Head(inbuf) = 0) =>
          /\ wpc' = "select"
          /\ ifq' = ifq
          /\ prq' = prq
          /\ decoded' = decoded
          /\ inbuf' = Tail(inbuf)]_vars

C10_Witness ==
    /\ wlast.out = "idle"
    /\ wpc = "select"
    /\ nframes = 2
    /\ Len(prq) = 1

(***************************************************************************)
(* C6: once the link worker has terminated, by whatever path, both plane   *)
(* senders are dropped; a session operation that is then waiting on an     *)
(* empty plane queue does return, and what it returns is Shutdown.         *)
(***************************************************************************)
AwaitsInterface == spc \in {"gs_recv", "sr_recv", "sm_recv1", "sm_recv2"}
StuckOnDeadWorker ==
    /\ wpc = "done"
    /\ \/ AwaitsInterface /\ ifq = <<>>
       \/ spc = "rm_recv" /\ prq = <<>>

C6_TerminationIsShutdown ==
    /\ [](wpc = "done" => held \cap {"interface_msg_tx", "protocol_msg_tx"} = {})
    /\ [][(StuckOnDeadWorker /\ spc' = "idle") => sres'.r = "Shutdown"]_vars
    /\ (StuckOnDeadWorker ~> (spc \in {"idle", "dropped"}))

C6_Witness ==
    /\ Returned("get_status")
    /\ sres.r = "Shutdown"
    /\ wret = "io_err"
    /\ opTrace # <<>>

(***************************************************************************)
(* C7: once the session has been dropped the link worker eventually        *)
(* exits, whatever it was doing when the session was dropped.              *)
(***************************************************************************)
C7_DropStopsWorker == (spc = "dropped") ~> (wpc = "done")

\* the worker was sending a message on the full sensor queue when the session
\* was dropped, and has exited on the failed send
C7_Witness ==
    /\ spc = "dropped"
    /\ wpc = "done"
    /\ wret = "send_err"
    /\ Len(decoded) - Len(prRecvd) = MESSAGE_QUEUE_LEN + 1

(***************************************************************************)
(* C11: neither side of the link worker is starved: while the worker has   *)
(* not terminated (and port writes complete, which Fairness states), every *)
(* frame the session has enqueued on the outbound channel is eventually    *)
(* written to the port, however many sensor frames the device sends and    *)
(* whether or not anything drains the sensor queue.                        *)
(* Violated: with the sensor queue full and nobody reading it, the worker  *)
(* waits inside protocol_msg_tx.send and never returns to its select.      *)
(***************************************************************************)
C11_OutboundNotStarved == (enq # <<>>) ~> (wpc = "done" \/ written = Concat(enq))

(***************************************************************************)
(* C12: every command builder returns a frame of 14 bytes whose first byte *)
(* is 13, the number of bytes after it, followed by type 0, sub-type 0,    *)
(* the sequence number given and the command code (reset 0, get_status 2,  *)
(* start_receiver 7, save 6, set_mode 3); set_mode puts the frequency at   *)
(* offset 5 and the four protocol masks at offsets 7..10; every other byte *)
(* is zero.                                                                *)
(***************************************************************************)
CommandCode ==
    [reset |-> 0, get_status |-> 2, start_receiver |-> 7, save |-> 6, set_mode |-> 3]

C12_BuilderFrames ==
    (arg.fn \in DOMAIN CommandCode /\ ret # NoRet) =>
        /\ ret.k = "ok"
        /\ LET f == ret.v[1] IN
            /\ Len(f) = 14
            /\ f[1] = 13
            /\ f[1] = Len(f) - 1
            /\ f[2] = 0 /\ f[3] = 0
            /\ f[4] = arg.a[1]
            /\ f[5] = CommandCode[arg.fn]
            /\ IF arg.fn = "set_mode"
               THEN /\ f[6] = arg.a[2]
                    /\ f[7] = 0
                    /\ \A i \in 1 .. 4 : f[7 + i] = arg.a[2 + i]
                    /\ \A i \in 12 .. 14 : f[i] = 0
               ELSE \A i \in 6 .. 14 : f[i] = 0

\* set_mode(0x12, TrxType43392, 0x42, 0xFF, 0, 0x42) was built
C12_Witness ==
    /\ arg = [fn |-> "set_mode", a |-> <<18, 83, 66, 255, 0, 66>>]
    /\ ret.k = "ok"
    /\ ret.v[1] = <<13, 0, 0, 18, 3, 83, 0, 66, 255, 0, 66, 0, 0, 0>>

(***************************************************************************)
(* C13: for every known packet type, sub-type and sequence number, a       *)
(* header written in front of a payload and then parsed from what follows  *)
(* the length byte comes back with the same packet type, sub-type and      *)
(* sequence number, and with the payload as the remaining body.            *)
(***************************************************************************)
C13_HeaderRoundTrip ==
    (arg.fn = "header" /\ ret # NoRet) =>
        /\ ret.k = "ok"
        /\ ret.v[1].header.packet_type = arg.a[1]
        /\ ret.v[1].header.sub_type = arg.a[2]
        /\ ret.v[1].header.seqnbr = arg.a[3]
        /\ ret.v[1].rest = SubSeq(arg.a, 4, Len(arg.a))

\* TempHum header, sub-type 7, sequence number 255, payload 02 53 01
C13_Witness ==
    /\ arg = [fn |-> "header", a |-> <<82, 7, 255, 2, 83, 1>>]
    /\ ret.k = "ok"
    /\ ret.v[1].rest = <<2, 83, 1>>

(***************************************************************************)
(* C14: for a TempHum body of at least 7 bytes the decoded temperature, in *)
(* tenths of a degree, is +(((body[2] & 0x7F) << 8) | body[3]) when bit    *)
(* 0x80 of body[2] is clear and minus that magnitude when it is set: it is *)
(* >= 0 with the sign bit clear, <= 0 with it set, and no step of the      *)
(* 16-bit computation overflows (the i16 result is the exact integer).  A  *)
(* body of fewer than 7 bytes fails with NotEnoughData, expected = 7.      *)
(***************************************************************************)
C14_TempHumTemperature ==
    (arg.fn = "TempHum_parse" /\ ret # NoRet) =>
        IF Len(arg.a) >= 7
        THEN /\ ret.k = "ok"
             /\ LET b2 == arg.a[3]
                    b3 == arg.a[4]
                    magnitude == (b2 % 128) * 256 + b3
                    t == ret.v[1].temp
                IN  /\ b2 < 128 => (t = magnitude /\ t >= 0)
                    /\ b2 >= 128 => (t = 0 - magnitude /\ t <= 0)
                    /\ t \in -32768 .. 32767
        ELSE /\ ret.k = "err"
             /\ ret.e = "NotEnoughData"
             /\ ret.detail = <<Len(arg.a), 7>>

\* sign bit set, magnitude 0x7FFF: -3276.7 degrees
C14_Witness ==
    /\ arg.fn = "TempHum_parse"
    /\ Len(arg.a) = 7
    /\ arg.a[3] = 255 /\ arg.a[4] = 255
    /\ ret.k = "ok"
    /\ ret.v[1].temp = 0 - 32767

(***************************************************************************)
(* C15: a get_status that fails with UnexpectedMessage has consumed        *)
(* exactly one interface message and touched nothing else: no endpoint is  *)
(* dropped, the other queues and the worker are as they were, the session  *)
(* is idle again.  A later get_status whose message is a Status returns    *)
(* Ok with that message's frequency and protocols.                         *)
(***************************************************************************)
OnlyGetStatusCalled == ncalls["get_status"] = NCalls

C15_UsableAfterUnexpected ==
    /\ [][(spc = "gs_recv" /\ spc' = "idle" /\ sres'.r = "UnexpectedMessage") =>
            /\ ifq # <<>>
            /\ ifq' = Tail(ifq)
            /\ ifRecvd' = Append(ifRecvd, Head(ifq))
            /\ held' = held
            /\ {"to_serial_tx", "interface_msg_rx", "protocol_msg_rx"} \subseteq held'
            /\ UNCHANGED <<seqnbr, outq, prq, inbuf, workerVars>>]_vars
    \* the call before this one consumed a message that is not a Status, so it
    \* failed with UnexpectedMessage; this one consumed a Status
    /\ []((/\ Returned("get_status")
           /\ OnlyGetStatusCalled
           /\ Len(opTrace) = 2
           /\ Len(ifRecvd) >= 2
           /\ ifRecvd[Len(ifRecvd) - 1].t # "Status"
           /\ ifRecvd[Len(ifRecvd)].t = "Status") =>
              /\ sres.r = "Ok"
              /\ sres.v[1].frequency = ifRecvd[Len(ifRecvd)].frequency
              /\ sres.v[1].enabled_protocols = ifRecvd[Len(ifRecvd)].enabled_protocols)

\* get_status got a SetMode ack and failed; the next get_status got the Status
C15_Witness ==
    /\ Returned("get_status")
    /\ sres.r = "Ok"
    /\ ncalls["get_status"] = 2
    /\ Len(ifRecvd) = 2
    /\ ifRecvd[1].t = "SetMode"
    /\ ifRecvd[2].t = "Status"

(***************************************************************************)
(* C16: reset enqueues exactly one frame, the reset frame, and reads       *)
(* nothing: the call takes nothing off the interface queue or the sensor   *)
(* queue, from the moment it is called to the moment it returns, so a      *)
(* message that arrives meanwhile is still queued when reset has returned. *)
(***************************************************************************)
C16_ResetReadsNothing ==
    \* the call: one reset frame goes on the outbound channel
    /\ [][(spc = "idle" /\ spc' = "reset_sleep") =>
            /\ enq' = Append(enq, <<13, 0, 0, seqnbr, 0, 0, 0, 0, 0, 0, 0, 0, 0, 0>>)
            /\ outq' = Append(outq, <<13, 0, 0, seqnbr, 0, 0, 0, 0, 0, 0, 0, 0, 0, 0>>)
            /\ UNCHANGED <<ifq, prq, ifRecvd, prRecvd>>]_vars
    \* until it returns: nothing more is enqueued, nothing is consumed, and
    \* the plane queues only grow
    /\ [][(spc = "reset_sleep" /\ spc' # "dropped") =>
            /\ UNCHANGED <<enq, ifRecvd, prRecvd>>
            /\ IsPrefix(ifq, ifq')
            /\ IsPrefix(prq, prq')]_vars
    /\ []((Returned("reset") /\ sres.r = "Ok") =>
            /\ Len(opTrace) = 1
            /\ opTrace[1].e = "send"
            /\ enq[Len(enq)] = opTrace[1].x)

\* a Status reply arrived while reset slept and is still queued after it
C16_Witness ==
    /\ Returned("reset")
    /\ sres.r = "Ok"
    /\ ncalls["reset"] = 1
    /\ NCalls = 1
    /\ Len(ifq) = 1
    /\ ifq[1].t = "Status"
    /\ ifRecvd = <<>>
    /\ Len(written) = 14

(***************************************************************************)
(* C17: the worker takes length bytes at the device's frame boundaries     *)
(* only, under every interleaving with outbound traffic: so every frame    *)
(* read_message returns is, with its length byte, a frame the device sent. *)
(* Violated: when the outbound branch of the select wins while a frame is  *)
(* partly read, the read_message future is dropped with the bytes it had   *)
(* consumed, and the next read_message takes its length byte from the      *)
(* middle of that frame.                                                   *)
(***************************************************************************)
C17_DeframesAtBoundaries ==
    wlast.out \notin {"none", "idle"} =>
        (<<Len(wlast.frame)>> \o wlast.frame) \in InFrames

(***************************************************************************)
(* C18: neither plane queue ever holds more than 100 messages.  While the  *)
(* sensor queue is full the worker stays in its send: it reads no byte     *)
(* from the port and keeps the decoded message; when it leaves the send    *)
(* for its select the message is at the back of the queue, and it does     *)
(* leave the send once there is room.  So, while the session holds the     *)
(* receiver, every decoded sensor message is consumed, queued or being     *)
(* sent.                                                                   *)
(***************************************************************************)
SensorQueueFull ==
    /\ wpc = "send_pr"
    /\ Len(prq) = MESSAGE_QUEUE_LEN
    /\ "protocol_msg_rx" \in held

C18_BoundedNoLoss ==
    /\ [](Len(ifq) <= MESSAGE_QUEUE_LEN /\ Len(prq) <= MESSAGE_QUEUE_LEN)
    /\ [][(SensorQueueFull /\ prq' = prq) =>
            /\ wpc' = "send_pr"
            /\ wmsg' = wmsg
            /\ rd' = rd
            /\ IsPrefix(inbuf, inbuf')
            /\ decoded' = decoded]_vars
    /\ [][(wpc = "send_pr" /\ wpc' = "select") => prq' = Append(prq, wmsg[1])]_vars
    /\ ((wpc = "send_pr" /\ Len(prq) < MESSAGE_QUEUE_LEN) ~> (wpc # "send_pr"))
    /\ []((spc # "dropped" /\ wret # "send_err") =>
             PrDecoded = prRecvd \o prq \o Pending("send_pr"))

\* the worker waited on the full queue; read_message took one message and the
\* 101st went in
C18_Witness ==
    /\ wpc = "select"
    /\ Len(prRecvd) = 1
    /\ Len(prq) = MESSAGE_QUEUE_LEN
    /\ Len(decoded) = MESSAGE_QUEUE_LEN + 1
    /\ spc = "idle"

(***************************************************************************)
(* C19: an InterfaceMessage frame whose sub-type is RecStarted (7) decodes *)
(* to ReceiverStarted whatever its body holds, whatever the first body     *)
(* byte.                                                                   *)
(* Violated: the first body byte is decoded as a command code before the   *)
(* sub-type is looked at; a byte that is no command code fails the frame,  *)
(* and an empty body makes the decoder panic.                              *)
(***************************************************************************)
C19_RecStartedAnyBody ==
    (/\ arg.fn = "parse_message"
     /\ ret # NoRet
     /\ arg.a[1] = 1
     /\ arg.a[2] = 7) =>
        /\ ret.k = "ok"
        /\ ret.v[1].plane = "interface"
        /\ ret.v[1].msg.t = "ReceiverStarted"

(***************************************************************************)
(* C20: an InterfaceMessage frame of sub-type InterfaceResponse (0)        *)
(* decodes by its first body byte: 2 yields Status with frequency body[1], *)
(* fw_version body[2] and enabled_protocols body[3..7] (an unknown         *)
(* frequency byte fails with UnknownHardwareType), 3 yields SetMode, 6     *)
(* yields Save, and every other byte, 7 included, fails with the returned  *)
(* error UnknownInterfaceMessageCommand.                                   *)
(* Violated: the command codes 0 (Reset) and 7 (StartReceiver) are known   *)
(* to the decoder, which then has no arm for them and panics.              *)
(***************************************************************************)
C20_InterfaceResponseByCommand ==
    (/\ arg.fn = "parse_message"
     /\ ret # NoRet
     /\ arg.a[1] = 1
     /\ arg.a[2] = 0
     /\ Len(arg.a) >= 4
     /\ (arg.a[4] = 2 => Len(arg.a) >= 10)) =>
        LET body == SubSeq(arg.a, 4, Len(arg.a)) IN
        IF body[1] = 2
        THEN IF body[2] \in {80, 81, 82, 83, 84, 85, 95}
             THEN /\ ret.k = "ok"
                  /\ ret.v[1].plane = "interface"
                  /\ ret.v[1].msg.t = "Status"
                  /\ ret.v[1].msg.frequency = body[2]
                  /\ ret.v[1].msg.fw_version = body[3]
                  /\ ret.v[1].msg.enabled_protocols = SubSeq(body, 4, 7)
             ELSE ret.k = "err" /\ ret.e = "UnknownHardwareType"
        ELSE IF body[1] = 3
        THEN ret.k = "ok" /\ ret.v[1].msg.t = "SetMode"
        ELSE IF body[1] = 6
        THEN ret.k = "ok" /\ ret.v[1].msg.t = "Save"
        ELSE ret.k = "err" /\ ret.e = "UnknownInterfaceMessageCommand"

(***************************************************************************)
(* C21: the frames the session enqueues carry consecutive sequence numbers *)
(* starting at 0 and wrapping modulo 256: the k-th frame enqueued (set_mode*)
(* counting as two, set-mode then save) has sequence byte (k-1) mod 256,   *)
(* the counter stands at the number of frames enqueued modulo 256, and no  *)
(* operation fails, the one that enqueues the 257th frame included.        *)
(***************************************************************************)
C21_ConsecutiveSeqNbrs ==
    /\ \A k \in 1 .. Len(enq) : enq[k][4] = (k - 1) % 256
    /\ seqnbr = Len(enq) % 256
    /\ (spc = "idle" /\ sres # NoResult) => sres.r = "Ok"

\* the operation that enqueued the 257th frame has returned
C21_Witness ==
    /\ Len(enq) = 257
    /\ enq[256][4] = 255
    /\ enq[257][4] = 0
    /\ spc = "idle"
    /\ sres.r = "Ok"

\* the interface message that decodes from the device's reply to command cmd
ReplyType(cmd) ==
    CASE cmd = InterfaceCommandCmd_Status -> "Status"
      [] cmd = InterfaceCommandCmd_SetMode -> "SetMode"
      [] cmd = InterfaceCommandCmd_Save -> "Save"
      [] cmd = InterfaceCommandCmd_StartReceiver -> "ReceiverStarted"
      [] OTHER -> "none"

(***************************************************************************)
(* C22: with a device that answers every get_status, start_receiver,       *)
(* set-mode and save frame with one decodable interface message, in order, *)
(* never answers reset and sends nothing else on the interface plane, the  *)
(* interface queue is empty whenever the session is between operations,    *)
(* and every interface message an operation consumes is the reply to the   *)
(* frame it enqueued just before, under any interleaving of sensor frames. *)
(* Violated: a sensor frame whose length byte was read when the select     *)
(* took an outbound frame is re-framed together with the reply.            *)
(***************************************************************************)
C22_ConsumesOwnReply ==
    /\ spc = "idle" => ifq = <<>>
    /\ \A i \in 1 .. Len(opTrace) :
          (opTrace[i].e = "recv" /\ ~Returned("read_message")) =>
              /\ i > 1
              /\ opTrace[i - 1].e = "send"
              /\ opTrace[i].x[1].t = ReplyType(opTrace[i - 1].x[5])

ControlOps == {"reset", "get_status", "start_receiver", "set_mode"}
ControlCalled(op) == ncalls'[op] = ncalls[op] + 1

(***************************************************************************)
(* C23: a control operation (reset, get_status, start_receiver, set_mode)  *)
(* called after the link worker has terminated returns in the same step,   *)
(* without waiting on any queue: it reports the channel-send error,        *)
(* enqueues nothing, consumes no interface message (queued ones stay       *)
(* queued) and advances the sequence counter by one.                       *)
(***************************************************************************)
C23_FailsFastOnDeadWorker ==
    [][\A op \in ControlOps :
          (wpc = "done" /\ ControlCalled(op)) =>
              /\ spc' = "idle"
              /\ sres' = Result(op, "TokioSendError", <<>>)
              /\ UNCHANGED <<outq, enq, ifq, ifRecvd, prq, prRecvd>>
              /\ seqnbr' = (seqnbr + 1) % 256]_vars

\* the worker stopped with a message on the interface queue; get_status was
\* called then, failed on its send and left the message where it was
C23_Witness ==
    /\ wpc = "done"
    /\ Returned("get_status")
    /\ sres.r = "TokioSendError"
    /\ ncalls["get_status"] = 1
    /\ enq = <<>>
    /\ Len(ifq) = 1
    /\ seqnbr = 1

ReadMessageReturns == spc = "rm_recv" /\ spc' = "idle"
ReturnedShutdown == Returned("read_message") /\ sres.r = "Shutdown"

(***************************************************************************)
(* C24: after the link worker has terminated nothing is added to the       *)
(* sensor queue; a read_message that returns then returns the oldest       *)
(* queued message and takes it off the queue, and returns Shutdown only    *)
(* when the queue is empty; a read_message waiting then does return; and   *)
(* once one has returned Shutdown every later one returns Shutdown.        *)
(***************************************************************************)
C24_DrainsThenShutdown ==
    /\ [][wpc = "done" => (wpc' = "done" /\ prq' \in {prq, Drop(prq, 1)})]_vars
    /\ [][(wpc = "done" /\ ReadMessageReturns) =>
              IF prq # <<>>
              THEN /\ sres' = Result("read_message", "Ok", <<Head(prq)>>)
                   /\ prq' = Tail(prq)
                   /\ prRecvd' = Append(prRecvd, Head(prq))
              ELSE /\ sres' = Result("read_message", "Shutdown", <<>>)
                   /\ UNCHANGED <<prq, prRecvd>>]_vars
    /\ (wpc = "done" /\ spc = "rm_recv") ~> (spc = "idle")
    /\ [](ReturnedShutdown => [](Returned("read_message") => sres.r = "Shutdown"))

\* the fourth read_message has returned Shutdown on a dead worker, after the
\* TempHum message and then the Lighting1 message had been handed out
C24_Witness ==
    /\ wpc = "done"
    /\ ReturnedShutdown
    /\ ncalls["read_message"] = 4
    /\ prq = <<>>
    /\ Len(prRecvd) = 2
    /\ prRecvd[1].t = "TempHum"
    /\ prRecvd[2].t = "NotParsed"

====
